---- MODULE Spec2Model ----
(***************************************************************************)
(* Model of src/src/tree/__init__.py (class Tree): the accessibility-tree  *)
(* walk get_nodes, the per-application partition and parallel merge        *)
(* get_appwise_nodes, and the parallel annotation annotated_screenshot.    *)
(*                                                                         *)
(* Python strings that the code trims, capitalises or compares are         *)
(* sequences of one-character strings, so that strip(), capitalize() and   *)
(* title() are computed, not assumed.  Identifiers that the code only      *)
(* tests for membership (ControlTypeName, DefaultAction) are TLA+ strings. *)
(***************************************************************************)
EXTENDS Integers, Sequences, FiniteSets, Bags, TLC

VARIABLES
    all_apps,            \* root.GetChildren(): the handles of the top-level windows, in platform order
    pool,                \* number of workers of the ThreadPoolExecutor
    pc,                  \* position of the calling thread
    apps,                \* values of the dict `apps`: indices into all_apps, in dict order
    future,              \* per submitted task: its state and the outcome of get_nodes
    mergeOrder,          \* tasks in the order as_completed handed them to the caller
    interactive_nodes,   \* merged result lists of get_appwise_nodes
    informative_nodes,
    scrollable_nodes,
    walk_node,           \* argument of a direct get_nodes call
    walk_result,         \* its outcome
    nodes,               \* argument of annotated_screenshot (labels are 1..Len(nodes))
    draw_pc,             \* per draw_annotation task: its position
    canvas               \* operations applied to the shared ImageDraw object

vars == << all_apps, pool, pc, apps, future, mergeOrder, interactive_nodes,
           informative_nodes, scrollable_nodes, walk_node, walk_result,
           nodes, draw_pc, canvas >>

appVars == << all_apps, pool, apps, future, mergeOrder, interactive_nodes,
              informative_nodes, scrollable_nodes >>
walkVars == << walk_node, walk_result >>
drawVars == << nodes, draw_pc, canvas >>

----------------------------------------------------------------------------
(* Bounds of the model.                                                    *)

\* largest number of accessibility nodes in a tree handed to get_nodes
MaxNodes == 3
\* largest number of top-level windows under the root
MaxWindows == 4
\* largest worker pool
MaxPool == 2
\* largest number of nodes handed to annotated_screenshot
MaxDrawNodes == 3

----------------------------------------------------------------------------
(* Python str operations.                                                  *)

Lowers == << "a","b","c","d","e","f","g","h","i","j","k","l","m",
             "n","o","p","q","r","s","t","u","v","w","x","y","z" >>
Uppers == << "A","B","C","D","E","F","G","H","I","J","K","L","M",
             "N","O","P","Q","R","S","T","U","V","W","X","Y","Z" >>

UpperOf == [c \in { Lowers[i] : i \in 1..Len(Lowers) } |->
               Uppers[CHOOSE i \in 1..Len(Lowers) : Lowers[i] = c]]
LowerOf == [c \in { Uppers[i] : i \in 1..Len(Uppers) } |->
               Lowers[CHOOSE i \in 1..Len(Uppers) : Uppers[i] = c]]

isalpha(c) == c \in DOMAIN UpperOf \/ c \in DOMAIN LowerOf
isspace(c) == c = " "
upper(c) == IF c \in DOMAIN UpperOf THEN UpperOf[c] ELSE c
lower(c) == IF c \in DOMAIN LowerOf THEN LowerOf[c] ELSE c

RECURSIVE lstrip(_)
lstrip(s) == IF s # << >> /\ isspace(Head(s)) THEN lstrip(Tail(s)) ELSE s

RECURSIVE rstrip(_)
rstrip(s) ==
    IF s # << >> /\ isspace(s[Len(s)]) THEN rstrip(SubSeq(s, 1, Len(s) - 1)) ELSE s

\* str.strip()
strip(s) == rstrip(lstrip(s))

\* str.capitalize(): first character upper-cased, the rest lower-cased
capitalize(s) == [i \in 1..Len(s) |-> IF i = 1 THEN upper(s[i]) ELSE lower(s[i])]

\* str.title(): a letter that starts a word upper-cased, the others lower-cased
title(s) ==
    [i \in 1..Len(s) |->
        IF i = 1 \/ ~isalpha(s[i - 1]) THEN upper(s[i]) ELSE lower(s[i])]

\* Python `a or b` on strings: the empty string is falsy
StrOr(a, b) == IF a # << >> THEN a ELSE b

\* the literals of the source
EmptyNamePlaceholder == << "'", "'" >>
S_Taskbar == << "T","a","s","k","b","a","r" >>
S_ProgramManager == << "P","r","o","g","r","a","m"," ","M","a","n","a","g","e","r" >>
S_Desktop == << "D","e","s","k","t","o","p" >>
S_graphic == << "g","r","a","p","h","i","c" >>

----------------------------------------------------------------------------
(* Configuration imported by the module (src.tree.config and               *)
(* src.desktop.config): representative contents.  ImageControl is in both  *)
(* control-type lists, so that the order of the tests matters.             *)

INTERACTIVE_CONTROL_TYPE_NAMES == { "ButtonControl", "ImageControl" }
INFORMATIVE_CONTROL_TYPE_NAMES == { "TextControl", "ImageControl" }
DEFAULT_ACTIONS == { "Click", "Press" }
S_RecordingToolbar ==
    << "R","e","c","o","r","d","i","n","g"," ","t","o","o","l","b","a","r" >>
AVOIDED_APPS == { S_RecordingToolbar }

----------------------------------------------------------------------------
(* The accessibility nodes the platform hands out.  A node is a record of  *)
(* what each query of the code answers; a query that raises is a flag.     *)

Box(l, t, r, b) == [left |-> l, top |-> t, right |-> r, bottom |-> b]

\* uiautomation.Rect, as the code uses it
width(box) == box.right - box.left
height(box) == box.bottom - box.top
isempty(box) == width(box) = 0 \/ height(box) = 0
xcenter(box) == box.left + (width(box) \div 2)
ycenter(box) == box.top + (height(box) \div 2)

\* node.GetScrollPattern(): None when the pattern is not supported
ScrollPattern(s, v, h) ==
    [supported |-> s, VerticallyScrollable |-> v, HorizontallyScrollable |-> h]
\* node.GetLegacyIAccessiblePattern(): raises when the pattern is not supported
LegacyPattern(s, a) == [supported |-> s, DefaultAction |-> a]

S_Ok == << " ", "O", "k", " " >>
S_blank == << " " >>
S_pane == << "p","a","n","e" >>
S_button == << "b","u","t","t","o","n" >>
S_toolbar == << "t","o","o","l"," ","b","a","r" >>
S_CtrlS == << "C","t","r","l","+","S" >>

Pane ==
    [ Name |-> S_Ok,
      ControlTypeName |-> "PaneControl",
      LocalizedControlType |-> S_pane,
      AcceleratorKey |-> << >>,
      BoundingRectangle |-> Box(0, 0, 4, 2),
      BoundingRectangleRaises |-> FALSE,
      IsOffscreen |-> FALSE,
      IsEnabled |-> "True",
      ScrollPattern |-> ScrollPattern(FALSE, FALSE, FALSE),
      LegacyIAccessiblePattern |-> LegacyPattern(TRUE, ""),
      GetChildrenRaises |-> FALSE,
      children |-> << >> ]

Button ==
    [Pane EXCEPT !.ControlTypeName = "ButtonControl",
                 !.LocalizedControlType = S_button,
                 !.AcceleratorKey = S_CtrlS]

Text ==
    [Pane EXCEPT !.ControlTypeName = "TextControl",
                 !.LocalizedControlType = << "t","e","x","t" >>]

VScroll == ScrollPattern(TRUE, TRUE, FALSE)
HScroll == ScrollPattern(TRUE, FALSE, TRUE)

\* The kinds of node a scene is built from: one per path through the classifier.
ControlKinds ==
    { Pane,
      Button,
      [Button EXCEPT !.Name = S_blank, !.ScrollPattern = VScroll, !.AcceleratorKey = << >>],
      [Button EXCEPT !.IsEnabled = "False", !.ScrollPattern = HScroll],
      [Button EXCEPT !.BoundingRectangle = Box(3, 0, 1, 2)],
      [Button EXCEPT !.BoundingRectangleRaises = TRUE],
      [Text EXCEPT !.Name = << >>, !.ScrollPattern = VScroll],
      [Text EXCEPT !.IsEnabled = "raises", !.IsOffscreen = TRUE, !.ScrollPattern = HScroll],
      [Pane EXCEPT !.ControlTypeName = "ImageControl",
                   !.LocalizedControlType = << "i","m","a","g","e" >>],
      [Pane EXCEPT !.ControlTypeName = "ImageControl", !.LocalizedControlType = S_graphic],
      [Pane EXCEPT !.ControlTypeName = "GroupControl", !.LocalizedControlType = S_toolbar,
                   !.LegacyIAccessiblePattern = LegacyPattern(TRUE, "Click")],
      [Pane EXCEPT !.ControlTypeName = "GroupControl",
                   !.LegacyIAccessiblePattern = LegacyPattern(FALSE, "")],
      [Pane EXCEPT !.Name = << >>, !.ScrollPattern = VScroll],
      [Pane EXCEPT !.Name = S_blank, !.LocalizedControlType = << >>,
                   !.ScrollPattern = ScrollPattern(TRUE, TRUE, TRUE),
                   !.BoundingRectangle = Box(1, 0, 1, 2)],
      [Pane EXCEPT !.ScrollPattern = VScroll, !.BoundingRectangleRaises = TRUE],
      [Pane EXCEPT !.GetChildrenRaises = TRUE] }

\* The shape of a tree is the sequence of the shapes of its children.
RECURSIVE ForestShapes(_)
\* the sequences of shapes of m nodes in all
ForestShapes(m) ==
    IF m = 0 THEN { << >> }
    ELSE UNION { { << t >> \o f : t \in ForestShapes(j - 1), f \in ForestShapes(m - j) } :
                 j \in 1..m }

\* the shapes of the trees of exactly n nodes
ShapesOfSize(n) == ForestShapes(n - 1)

RECURSIVE Size(_)
RECURSIVE ForestSize(_)
Size(shape) == 1 + ForestSize(shape)
ForestSize(forest) ==
    IF forest = << >> THEN 0 ELSE Size(Head(forest)) + ForestSize(Tail(forest))

RECURSIVE Fill(_, _, _)
RECURSIVE FillForest(_, _, _)
\* the tree of this shape whose i-th node in pre-order, counted from `first`,
\* is of kind kinds[i]
Fill(shape, kinds, first) ==
    [kinds[first] EXCEPT !.children = FillForest(shape, kinds, first + 1)]
FillForest(forest, kinds, first) ==
    IF forest = << >> THEN << >>
    ELSE << Fill(Head(forest), kinds, first) >>
         \o FillForest(Tail(forest), kinds, first + Size(Head(forest)))

----------------------------------------------------------------------------
(* get_nodes: the classifier predicates (lines 53-108).  A predicate that  *)
(* the code wraps in try/except answers FALSE where a query raises.        *)

\* line 72-80; raises when node.BoundingRectangle raises
is_element_visible_raises(node) == node.BoundingRectangleRaises
is_element_visible(node) ==
    LET box == node.BoundingRectangle
        area == width(box) * height(box)
        is_offscreen == ~node.IsOffscreen
    IN  IF isempty(box) THEN FALSE ELSE area > 0 /\ is_offscreen

\* line 82-86
is_element_enabled(node) ==
    IF node.IsEnabled = "raises" THEN FALSE ELSE node.IsEnabled = "True"

\* line 88-92; isinstance(node, ImageControl) is the control type of the node
is_element_image(node) ==
    IF node.ControlTypeName = "ImageControl"
    THEN strip(node.Name) = << >> \/ node.LocalizedControlType = S_graphic
    ELSE FALSE

\* line 65-70; raises when the legacy pattern cannot be acquired
is_default_action_raises(node) == ~node.LegacyIAccessiblePattern.supported
is_default_action(node) == node.LegacyIAccessiblePattern.DefaultAction \in DEFAULT_ACTIONS

\* line 53-63
is_element_interactive(node) ==
    IF node.ControlTypeName \in INTERACTIVE_CONTROL_TYPE_NAMES
    THEN IF is_element_visible_raises(node) THEN FALSE
         ELSE is_element_visible(node) /\ is_element_enabled(node) /\ ~is_element_image(node)
    ELSE IF node.ControlTypeName = "GroupControl"
    THEN IF is_element_visible_raises(node) THEN FALSE
         ELSE is_element_visible(node) /\ is_element_enabled(node)
              /\ (IF is_default_action_raises(node) THEN FALSE ELSE is_default_action(node))
    ELSE FALSE

\* line 94-101
is_element_text(node) ==
    IF node.ControlTypeName \in INFORMATIVE_CONTROL_TYPE_NAMES
    THEN IF is_element_visible_raises(node) THEN FALSE
         ELSE is_element_visible(node) /\ is_element_enabled(node) /\ ~is_element_image(node)
    ELSE FALSE

\* line 103-108; an unsupported pattern is None, and None.VerticallyScrollable raises
is_element_scrollable(node) ==
    IF ~node.ScrollPattern.supported THEN FALSE
    ELSE node.ScrollPattern.VerticallyScrollable \/ node.ScrollPattern.HorizontallyScrollable

----------------------------------------------------------------------------
(* get_nodes: the walk (lines 48-52 and 110-146).  An emitted node carries *)
(* in `src` the path of the element it was built from (window index, then  *)
(* child positions): the identity of the element, which Python keeps as    *)
(* object identity.  `raised` says an exception is propagating.            *)

NoLists ==
    [ raised |-> FALSE,
      interactive_nodes |-> << >>,
      informative_nodes |-> << >>,
      scrollable_nodes |-> << >> ]

Raise(acc) == [acc EXCEPT !.raised = TRUE]

\* line 112-123
TreeElementNode(node, path, app_name) ==
    LET box == node.BoundingRectangle
    IN  [ src |-> path,
          name |-> StrOr(strip(node.Name), EmptyNamePlaceholder),
          control_type |-> title(node.LocalizedControlType),
          shortcut |-> StrOr(node.AcceleratorKey, EmptyNamePlaceholder),
          bounding_box |-> Box(box.left, box.top, box.right, box.bottom),
          center |-> [x |-> xcenter(box), y |-> ycenter(box)],
          app_name |-> app_name ]

TextElementNode_noPlaceholder(node, path, app_name) ==
    [ src |-> path, name |-> strip(node.Name), app_name |-> app_name ]

\* line 125-128
TextElementNode(node, path, app_name) ==
    [ src |-> path,
      name |-> StrOr(strip(node.Name), EmptyNamePlaceholder),
      app_name |-> app_name ]

\* line 130-140
ScrollElementNode(node, path, app_name) ==
    LET scroll_pattern == node.ScrollPattern
        box == node.BoundingRectangle
    IN  [ src |-> path,
          name |-> StrOr(strip(node.Name),
                         StrOr(capitalize(node.LocalizedControlType), EmptyNamePlaceholder)),
          app_name |-> app_name,
          center |-> [x |-> xcenter(box), y |-> ycenter(box)],
          horizontal_scrollable |-> scroll_pattern.HorizontallyScrollable,
          vertical_scrollable |-> scroll_pattern.VerticallyScrollable ]

\* the three tests made independently of one another
classify_independent(node, path, app_name, acc) ==
    LET a1 == IF is_element_interactive(node)
              THEN [acc EXCEPT !.interactive_nodes =
                        Append(@, TreeElementNode(node, path, app_name))]
              ELSE acc
        a2 == IF is_element_text(node)
              THEN [a1 EXCEPT !.informative_nodes =
                        Append(@, TextElementNode(node, path, app_name))]
              ELSE a1
    IN  IF is_element_scrollable(node)
        THEN IF node.BoundingRectangleRaises THEN Raise(a2)
             ELSE [a2 EXCEPT !.scrollable_nodes =
                       Append(@, ScrollElementNode(node, path, app_name))]
        ELSE a2

\* line 111-140: the if / elif / elif of tree_traversal.  The reads of
\* node.BoundingRectangle at lines 112 and 131 are outside every try.
classify(node, path, app_name, acc) ==
    IF is_element_interactive(node)
    THEN IF node.BoundingRectangleRaises THEN Raise(acc)
         ELSE [acc EXCEPT !.interactive_nodes =
                   Append(@, TreeElementNode(node, path, app_name))]
    ELSE IF is_element_text(node)
    THEN [acc EXCEPT !.informative_nodes =
              Append(@, TextElementNode(node, path, app_name))]
    ELSE IF is_element_scrollable(node)
    THEN IF node.BoundingRectangleRaises THEN Raise(acc)
         ELSE [acc EXCEPT !.scrollable_nodes =
                   Append(@, ScrollElementNode(node, path, app_name))]
    ELSE acc

RECURSIVE tree_traversal(_, _, _, _)
RECURSIVE traverse_children(_, _, _, _, _)

\* line 110-144: classify the node, then its children in enumeration order;
\* node.GetChildren() at line 143 is outside every try
tree_traversal(node, path, app_name, acc) ==
    LET a1 == classify(node, path, app_name, acc)
    IN  IF a1.raised THEN a1
        ELSE IF node.GetChildrenRaises THEN Raise(a1)
        ELSE traverse_children(node.children, 1, path, app_name, a1)

\* line 143-144: the for loop, from child i on
traverse_children(children, i, path, app_name, acc) ==
    IF i > Len(children) \/ acc.raised THEN acc
    ELSE traverse_children(children, i + 1, path, app_name,
             tree_traversal(children[i], Append(path, i), app_name, acc))

\* line 48-52 and 145-146.  An exception leaves no lists behind.
get_nodes(node, path) ==
    LET stripped == strip(node.Name)
        app_name == IF stripped = S_ProgramManager THEN S_Desktop ELSE stripped
        r == tree_traversal(node, path, app_name, NoLists)
    IN  IF r.raised THEN Raise(NoLists) ELSE r

----------------------------------------------------------------------------
(* A direct call of get_nodes on one tree.                                 *)

IdleApps ==
    /\ all_apps = << >>
    /\ pool = 1
    /\ apps = << >>
    /\ future = << >>
    /\ mergeOrder = << >>
    /\ interactive_nodes = << >>
    /\ informative_nodes = << >>
    /\ scrollable_nodes = << >>

IdleWalk ==
    /\ walk_node = Pane
    /\ walk_result = NoLists

IdleDraw ==
    /\ nodes = 0
    /\ draw_pc = << >>
    /\ canvas = {}

InitWalk ==
    /\ pc = "start"
    /\ \E n \in 1..MaxNodes :
         \E shape \in ShapesOfSize(n), kinds \in [1..n -> ControlKinds] :
            walk_node = Fill(shape, kinds, 1)
    /\ walk_result = NoLists
    /\ IdleApps
    /\ IdleDraw

CallGetNodes ==
    /\ pc = "start"
    /\ walk_result' = get_nodes(walk_node, << 1 >>)
    /\ pc' = IF walk_result'.raised THEN "raised" ELSE "returned"
    /\ UNCHANGED << walk_node, appVars, drawVars >>

NextWalk == CallGetNodes

SpecWalk == InitWalk /\ [][NextWalk]_vars

----------------------------------------------------------------------------
(* get_appwise_nodes: the partition (lines 26-31).  A Python dict is a     *)
(* sequence of entries in insertion order; storing under a key that is     *)
(* present replaces the value and keeps the entry's place.                 *)

Entry(k, v) == [key |-> k, value |-> v]

DictHas(d, k) == \E i \in 1..Len(d) : d[i].key = k
DictGet(d, k) == d[CHOOSE i \in 1..Len(d) : d[i].key = k].value
DictSet(d, k, v) ==
    IF DictHas(d, k)
    THEN [i \in 1..Len(d) |-> IF d[i].key = k THEN Entry(k, v) ELSE d[i]]
    ELSE Append(d, Entry(k, v))
DictDel(d, k) == SelectSeq(d, LAMBDA e : e.key # k)
DictValues(d) == [i \in 1..Len(d) |-> d[i].value]

\* self.desktop.is_app_visible(app): the answer of the Desktop collaborator
is_app_visible(window) == window.visible

is_kept_ignoring_blocklist(window) == is_app_visible(window)

\* line 27: the condition of the dict comprehension
is_kept(window) == is_app_visible(window) /\ window.app.Name \notin AVOIDED_APPS

RECURSIVE visible_apps_from(_, _, _)
\* line 27: the dict comprehension, from window i on; values are window indices
visible_apps_from(windows, i, d) ==
    IF i > Len(windows) THEN d
    ELSE visible_apps_from(windows, i + 1,
             IF is_kept(windows[i]) THEN DictSet(d, windows[i].app.Name, i) ELSE d)

visible_apps(windows) == visible_apps_from(windows, 1, << >>)

\* line 28: dict.pop of a missing key raises KeyError
partition_raises(windows) ==
    \/ ~DictHas(visible_apps(windows), S_Taskbar)
    \/ ~DictHas(visible_apps(windows), S_ProgramManager)

\* line 28-31: the dict `apps`
apps_dict(windows) ==
    LET v0 == visible_apps(windows)
        d0 == << Entry(S_Taskbar, DictGet(v0, S_Taskbar)),
                 Entry(S_ProgramManager, DictGet(v0, S_ProgramManager)) >>
        v2 == DictDel(DictDel(v0, S_Taskbar), S_ProgramManager)
    IN  IF v2 # << >>
        THEN LET foreground_app == DictValues(v2)[1]
             IN  DictSet(d0, strip(windows[foreground_app].app.Name), foreground_app)
        ELSE d0

----------------------------------------------------------------------------
(* get_appwise_nodes: the parallel walk and the merge (lines 32-46).       *)

Tasks == 1..Len(apps)
Running == { t \in Tasks : future[t].state = "running" }
Merged == { mergeOrder[i] : i \in 1..Len(mergeOrder) }

extend_overwrite(list, items) == items

\* line 41-43: list.extend
extend(list, items) == list \o items

after_result_uncaught(result) == IF result.raised THEN "raised" ELSE "as_completed"

\* line 37-45: future.result() inside try/except Exception; the loop goes on
after_result(result) == "as_completed"

S_Notepad == << "N","o","t","e","p","a","d" >>

\* a window whose walk finds a node of each role
AppTree ==
    [Pane EXCEPT !.ScrollPattern = VScroll,
                 !.children = << Button, [Text EXCEPT !.Name = << >>] >>]
\* a window whose walk raises after its first match
FailingTree ==
    [Pane EXCEPT !.children = << Button, [Pane EXCEPT !.GetChildrenRaises = TRUE], Text >>]

Window(name, tree, v) == [app |-> [tree EXCEPT !.Name = name], visible |-> v]

\* The windows a scene is built from, by handle: what the platform and the
\* Desktop collaborator answer for the window behind the handle.
WindowKinds ==
    [ h \in { "taskbar", "progman", "notepad", "notepad (walk raises)",
              "notepad (hidden)", "recorder", "recorder (hidden)" } |->
        CASE h = "taskbar" -> Window(S_Taskbar, AppTree, TRUE)
          [] h = "progman" -> Window(S_ProgramManager, AppTree, TRUE)
          [] h = "notepad" -> Window(S_Notepad, AppTree, TRUE)
          [] h = "notepad (walk raises)" -> Window(S_Notepad, FailingTree, TRUE)
          [] h = "notepad (hidden)" -> Window(S_Notepad, AppTree, FALSE)
          [] h = "recorder" -> Window(S_RecordingToolbar, AppTree, TRUE)
          [] h = "recorder (hidden)" -> Window(S_RecordingToolbar, AppTree, FALSE) ]

\* root.GetChildren() (line 26): the windows behind the handles of all_apps
Windows == [i \in 1..Len(all_apps) |-> WindowKinds[all_apps[i]]]

InitApps ==
    /\ pc = "start"
    /\ \E n \in 0..MaxWindows : all_apps \in [1..n -> DOMAIN WindowKinds]
    /\ pool \in 1..MaxPool
    /\ apps = << >>
    /\ future = << >>
    /\ mergeOrder = << >>
    /\ interactive_nodes = << >>
    /\ informative_nodes = << >>
    /\ scrollable_nodes = << >>
    /\ IdleWalk
    /\ IdleDraw

\* line 26-35: select the windows and submit one get_nodes task per window
Partition ==
    /\ pc = "start"
    /\ IF partition_raises(Windows)
       THEN /\ pc' = "raised"
            /\ UNCHANGED << apps, future >>
       ELSE /\ pc' = "as_completed"
            /\ apps' = DictValues(apps_dict(Windows))
            /\ future' = [t \in 1..Len(apps') |-> [state |-> "pending", result |-> NoLists]]
    /\ UNCHANGED << all_apps, pool, mergeOrder, interactive_nodes, informative_nodes,
                    scrollable_nodes, walkVars, drawVars >>

\* the guards of the steps below
CanStart(t) ==
    /\ pc = "as_completed"
    /\ future[t].state = "pending"
    /\ \A u \in Tasks : u < t => future[u].state # "pending"
    /\ Cardinality(Running) < pool
CanRun(t) == pc = "as_completed" /\ future[t].state = "running"
CanMerge(t) == pc = "as_completed" /\ future[t].state = "finished" /\ t \notin Merged
CanReturn == pc = "as_completed" /\ Merged = Tasks

\* a free worker takes the oldest pending task from the executor's queue
Start(t) ==
    /\ CanStart(t)
    /\ future' = [future EXCEPT ![t].state = "running"]
    /\ UNCHANGED << all_apps, pool, pc, apps, mergeOrder, interactive_nodes,
                    informative_nodes, scrollable_nodes, walkVars, drawVars >>

\* line 35: the task, self.get_nodes(app), runs to its end or to its exception
Run(t) ==
    /\ CanRun(t)
    /\ future' = [future EXCEPT ![t] =
                     [state |-> "finished",
                      result |-> get_nodes(Windows[apps[t]].app, << apps[t] >>)]]
    /\ UNCHANGED << all_apps, pool, pc, apps, mergeOrder, interactive_nodes,
                    informative_nodes, scrollable_nodes, walkVars, drawVars >>

\* line 36-45: as_completed hands over a finished future; its lists are merged
Merge(t) ==
    /\ CanMerge(t)
    /\ mergeOrder' = Append(mergeOrder, t)
    /\ pc' = after_result(future[t].result)
    /\ IF future[t].result.raised
       THEN UNCHANGED << interactive_nodes, informative_nodes, scrollable_nodes >>
       ELSE /\ interactive_nodes' = extend(interactive_nodes, future[t].result.interactive_nodes)
            /\ informative_nodes' = extend(informative_nodes, future[t].result.informative_nodes)
            /\ scrollable_nodes' = extend(scrollable_nodes, future[t].result.scrollable_nodes)
    /\ UNCHANGED << all_apps, pool, apps, future, walkVars, drawVars >>

\* line 46: every future was handed over, the executor is shut down
Return ==
    /\ CanReturn
    /\ pc' = "returned"
    /\ UNCHANGED << appVars, walkVars, drawVars >>

NextApps ==
    \/ Partition
    \/ \E t \in Tasks : Start(t)
    \/ \E t \in Tasks : Run(t)
    \/ \E t \in Tasks : Merge(t)
    \/ Return

SpecApps == InitApps /\ [][NextApps]_vars

----------------------------------------------------------------------------
(* annotated_screenshot (lines 148-201).  One ImageDraw object, `draw`, is *)
(* created at line 158 and used by every draw_annotation task; the code    *)
(* takes no lock.  Each call on `draw` is one step of its task.            *)

Labels == 1..nodes
Active == { t \in Labels : draw_pc[t] \notin { "queued", "done" } }

InitDraw ==
    /\ pc = "start"
    /\ nodes \in 0..MaxDrawNodes
    /\ pool \in 1..MaxPool
    /\ draw_pc = [t \in 1..nodes |-> "queued"]
    /\ canvas = {}
    /\ all_apps = << >>
    /\ apps = << >>
    /\ future = << >>
    /\ mergeOrder = << >>
    /\ interactive_nodes = << >>
    /\ informative_nodes = << >>
    /\ scrollable_nodes = << >>
    /\ IdleWalk

\* line 149-200: make the padded canvas and submit one task per node
Submit ==
    /\ pc = "start"
    /\ pc' = "map"
    /\ UNCHANGED << appVars, walkVars, drawVars >>

\* a free worker takes the oldest queued task; line 169-178
DrawStart(t) ==
    /\ pc = "map"
    /\ draw_pc[t] = "queued"
    /\ \A u \in Labels : u < t => draw_pc[u] # "queued"
    /\ Cardinality(Active) < pool
    /\ draw_pc' = [draw_pc EXCEPT ![t] = "rectangle"]
    /\ UNCHANGED << pc, appVars, walkVars, nodes, canvas >>

\* line 181: draw.rectangle(adjusted_box, ...)
DrawRectangle(t) ==
    /\ draw_pc[t] = "rectangle"
    /\ canvas' = canvas \cup { << "box", t >> }
    /\ draw_pc' = [draw_pc EXCEPT ![t] = "textlength"]
    /\ UNCHANGED << pc, appVars, walkVars, nodes >>

\* line 184: draw.textlength(str(label), ...)
DrawTextLength(t) ==
    /\ draw_pc[t] = "textlength"
    /\ draw_pc' = [draw_pc EXCEPT ![t] = "label"]
    /\ UNCHANGED << pc, appVars, walkVars, nodes, canvas >>

\* line 195: draw.rectangle of the label background
DrawLabel(t) ==
    /\ draw_pc[t] = "label"
    /\ canvas' = canvas \cup { << "label", t >> }
    /\ draw_pc' = [draw_pc EXCEPT ![t] = "text"]
    /\ UNCHANGED << pc, appVars, walkVars, nodes >>

\* line 196: draw.text(...)
DrawText(t) ==
    /\ draw_pc[t] = "text"
    /\ canvas' = canvas \cup { << "text", t >> }
    /\ draw_pc' = [draw_pc EXCEPT ![t] = "done"]
    /\ UNCHANGED << pc, appVars, walkVars, nodes >>

\* line 199-201: leaving the with block waits for every task
DrawReturn ==
    /\ pc = "map"
    /\ \A t \in Labels : draw_pc[t] = "done"
    /\ pc' = "returned"
    /\ UNCHANGED << appVars, walkVars, drawVars >>

NextDraw ==
    \/ Submit
    \/ \E t \in Labels : DrawStart(t)
    \/ \E t \in Labels : DrawRectangle(t)
    \/ \E t \in Labels : DrawTextLength(t)
    \/ \E t \in Labels : DrawLabel(t)
    \/ \E t \in Labels : DrawText(t)
    \/ DrawReturn

SpecDraw == InitDraw /\ [][NextDraw]_vars

----------------------------------------------------------------------------
(* Vocabulary of the properties.                                           *)

RECURSIVE NodeAt(_, _)
\* the node of the tree rooted at `root` that the walk reaches under `path`
\* (the first element of a path names the root)
NodeAt(root, path) ==
    IF Len(path) = 1 THEN root ELSE NodeAt(root.children[path[2]], Tail(path))

RECURSIVE PathsOf(_, _)
\* the paths of all nodes of the tree rooted at `root`, itself under `path`
PathsOf(root, path) ==
    { path } \cup UNION { PathsOf(root.children[i], Append(path, i)) :
                          i \in 1..Len(root.children) }

RECURSIVE WithNodeAt(_, _, _)
\* the tree with the node under `path` replaced
WithNodeAt(root, path, new) ==
    IF Len(path) = 1 THEN new
    ELSE [root EXCEPT !.children[path[2]] = WithNodeAt(@, Tail(path), new)]

Range(seq) == { seq[i] : i \in 1..Len(seq) }
SeqToBag(seq) == [x \in Range(seq) |-> Cardinality({ i \in 1..Len(seq) : seq[i] = x })]
Occurrences(seq, path) == Cardinality({ i \in 1..Len(seq) : seq[i].src = path })
Without(seq, path) == SelectSeq(seq, LAMBDA e : e.src # path)

RECURSIVE Flatten(_)
Flatten(seqs) == IF seqs = << >> THEN << >> ELSE Head(seqs) \o Flatten(Tail(seqs))

Min(S) == CHOOSE x \in S : \A y \in S : x <= y

\* the walk under observation, its tree and the display name of an emitted node's element
WalkPaths == PathsOf(walk_node, << 1 >>)
Element(e) == NodeAt(walk_node, e.src)
DisplayNameEmpty(e) == strip(Element(e).Name) = << >>
WalkEmitted ==
    Range(walk_result.interactive_nodes) \cup Range(walk_result.informative_nodes)
        \cup Range(walk_result.scrollable_nodes)

\* what the walk of the window at index i of all_apps returns
WindowResult(i) == get_nodes(Windows[i].app, << i >>)

----------------------------------------------------------------------------
(* C1.  When the enumeration holds the Taskbar, the Program Manager and    *)
(* one or more other visible, non-blocked windows, exactly one of those    *)
(* others is submitted to a walk, and it is the first one enumerated.      *)

OtherCandidates ==
    { i \in 1..Len(all_apps) :
        /\ is_app_visible(Windows[i])
        /\ Windows[i].app.Name \notin AVOIDED_APPS
        /\ Windows[i].app.Name \notin { S_Taskbar, S_ProgramManager } }

\* C1: of the other visible, non-blocked windows exactly the first enumerated is walked
C1_FirstCandidateSelected ==
    (pc \in { "as_completed", "returned" } /\ OtherCandidates # {})
        => Range(apps) \cap OtherCandidates = { Min(OtherCandidates) }

----------------------------------------------------------------------------
(* C2.  A top-level window whose Name is in AVOIDED_APPS is never handed   *)
(* to get_nodes, and no node of a task's result or of the merged lists     *)
(* comes from its subtree, whether or not it is reported visible.          *)

FromBlocked(e) == Windows[e.src[1]].app.Name \in AVOIDED_APPS

\* C2: no task walks a blocked window and no result holds a node of one
C2_BlockedNeverWalked ==
    /\ \A t \in Tasks : Windows[apps[t]].app.Name \notin AVOIDED_APPS
    /\ \A t \in Tasks :
         \A e \in Range(future[t].result.interactive_nodes)
                    \cup Range(future[t].result.informative_nodes)
                    \cup Range(future[t].result.scrollable_nodes) : ~FromBlocked(e)
    /\ \A e \in Range(interactive_nodes) \cup Range(informative_nodes)
                    \cup Range(scrollable_nodes) : ~FromBlocked(e)

\* a visible blocked window is enumerated before the window that was walked
\* as the foreground application, and the snapshot returned nodes
C2_Witness ==
    /\ pc = "returned"
    /\ Len(apps) = 3
    /\ \E i \in 1..Len(all_apps) :
         /\ Windows[i].app.Name \in AVOIDED_APPS
         /\ is_app_visible(Windows[i])
         /\ i < apps[3]
    /\ interactive_nodes # << >>

----------------------------------------------------------------------------
(* C3.  Every node a walk visits is appended to at most one of the three   *)
(* lists, the roles being tested in the order interactive, informative,    *)
(* scrollable: a node in a list passed that list's test and failed the     *)
(* tests before it.                                                        *)

C3_RolesExclusive ==
    /\ \A p \in WalkPaths :
         Occurrences(walk_result.interactive_nodes, p)
           + Occurrences(walk_result.informative_nodes, p)
           + Occurrences(walk_result.scrollable_nodes, p) <= 1
    /\ \A e \in Range(walk_result.interactive_nodes) :
         is_element_interactive(Element(e))
    /\ \A e \in Range(walk_result.informative_nodes) :
         ~is_element_interactive(Element(e)) /\ is_element_text(Element(e))
    /\ \A e \in Range(walk_result.scrollable_nodes) :
         /\ ~is_element_interactive(Element(e))
         /\ ~is_element_text(Element(e))
         /\ is_element_scrollable(Element(e))

\* a node that passes two tests was emitted: an interactive node and an
\* informative node that both report scrollability
C3_Witness ==
    /\ pc = "returned"
    /\ \E e \in Range(walk_result.interactive_nodes) : is_element_scrollable(Element(e))
    /\ \E e \in Range(walk_result.informative_nodes) : is_element_scrollable(Element(e))

----------------------------------------------------------------------------
(* C4.  A node whose bounding rectangle has width <= 0 or height <= 0 is   *)
(* emitted in none of the three lists.                                     *)

C4_NoEmptyBoxEmitted ==
    \A e \in WalkEmitted :
        /\ width(Element(e).BoundingRectangle) > 0
        /\ height(Element(e).BoundingRectangle) > 0

----------------------------------------------------------------------------
(* C5.  Original statement: every emitted node, in any of the three lists, *)
(* whose display name is empty after trimming carries the placeholder ''   *)
(* as its name.                                                            *)

----------------------------------------------------------------------------
(* C6.  If the bounding-rectangle query of one node n raises and no other  *)
(* query fails, the walk completes and every other node is emitted exactly *)
(* as if n's query had not raised.                                         *)

NoOtherFailure(p) ==
    \A q \in WalkPaths :
        /\ ~NodeAt(walk_node, q).GetChildrenRaises
        /\ NodeAt(walk_node, q).IsEnabled # "raises"
        /\ NodeAt(walk_node, q).LegacyIAccessiblePattern.supported
        /\ q # p => ~NodeAt(walk_node, q).BoundingRectangleRaises

WithoutBoxFailure(p) ==
    WithNodeAt(walk_node, p, [NodeAt(walk_node, p) EXCEPT !.BoundingRectangleRaises = FALSE])

OthersOf(result, p) ==
    << Without(result.interactive_nodes, p),
       Without(result.informative_nodes, p),
       Without(result.scrollable_nodes, p) >>

\* C6: a raising bounding-rectangle query of one node leaves the other nodes' output unchanged
C6_BoxFailureIsolated ==
    pc # "start" =>
        \A p \in WalkPaths :
            (NodeAt(walk_node, p).BoundingRectangleRaises /\ NoOtherFailure(p))
                => /\ ~walk_result.raised
                   /\ OthersOf(walk_result, p)
                        = OthersOf(get_nodes(WithoutBoxFailure(p), << 1 >>), p)

----------------------------------------------------------------------------
(* C7.  If enumerating the children of one node n raises, only the subtree *)
(* below n is lost: get_nodes returns, and its lists hold every match      *)
(* outside that subtree.                                                   *)

OnlyChildrenFailure(p) ==
    \A q \in WalkPaths :
        /\ ~NodeAt(walk_node, q).BoundingRectangleRaises
        /\ NodeAt(walk_node, q).IsEnabled # "raises"
        /\ NodeAt(walk_node, q).LegacyIAccessiblePattern.supported
        /\ q # p => ~NodeAt(walk_node, q).GetChildrenRaises

WithoutSubtree(p) ==
    WithNodeAt(walk_node, p,
        [NodeAt(walk_node, p) EXCEPT !.GetChildrenRaises = FALSE, !.children = << >>])

\* C7: a raising children enumeration at one node loses only the subtree below it
C7_OnlySubtreeLost ==
    pc # "start" =>
        \A p \in WalkPaths :
            (NodeAt(walk_node, p).GetChildrenRaises /\ OnlyChildrenFailure(p))
                => /\ ~walk_result.raised
                   /\ walk_result = get_nodes(WithoutSubtree(p), << 1 >>)

----------------------------------------------------------------------------
(* C8.  If the walk of one selected window raises, no exception reaches    *)
(* the caller and the snapshot still returns; the returned lists hold      *)
(* exactly the nodes of the walks that did not raise and nothing of the    *)
(* failed window, in every completion order.                               *)

\* what the walks of the submitted windows return, computed from the scene
Results == [t \in Tasks |-> WindowResult(apps[t])]

\* C8: a raising walk is omitted, the other walks' nodes are returned, nothing is raised
C8_TaskFailureIsolated ==
    /\ pc = "raised" => apps = << >>
    /\ pc = "as_completed" =>
         \/ CanReturn
         \/ \E t \in Tasks : CanStart(t) \/ CanRun(t) \/ CanMerge(t)
    /\ pc = "returned" =>
         LET res == Results
             failed == { t \in Tasks : res[t].raised }
             sound == Tasks \ failed
         IN  failed # {} =>
               /\ Range(interactive_nodes)
                    = UNION { Range(res[t].interactive_nodes) : t \in sound }
               /\ Range(informative_nodes)
                    = UNION { Range(res[t].informative_nodes) : t \in sound }
               /\ Range(scrollable_nodes)
                    = UNION { Range(res[t].scrollable_nodes) : t \in sound }
               /\ \A e \in Range(interactive_nodes) \cup Range(informative_nodes)
                              \cup Range(scrollable_nodes) :
                    \A t \in failed : e.src[1] # apps[t]

\* a snapshot returned nodes although the walk of a window had raised, the
\* failed task being neither the first nor the last handed over
C8_Witness ==
    /\ pc = "returned"
    /\ Len(mergeOrder) = 3
    /\ future[mergeOrder[2]].result.raised
    /\ ~future[mergeOrder[1]].result.raised
    /\ ~future[mergeOrder[3]].result.raised
    /\ interactive_nodes # << >>

----------------------------------------------------------------------------
(* C9.  For a fixed scene, whatever the interleaving, the completion order *)
(* and the pool size, the merged lists have the same membership: they are  *)
(* the per-window lists, each whole and in its own order, concatenated in  *)
(* the order the tasks were handed over; nothing is lost or duplicated.    *)

SelectedWindows == DictValues(apps_dict(Windows))

RECURSIVE BagOfLists(_)
\* the bag of the elements of all the sequences of a sequence
BagOfLists(seqs) ==
    IF seqs = << >> THEN EmptyBag ELSE SeqToBag(Head(seqs)) (+) BagOfLists(Tail(seqs))

\* C9: the merged lists are the per-window lists concatenated in hand-over order
C9_MergeOrderIndependent ==
    pc = "returned" =>
        LET res == Results
            handed == [k \in 1..Len(mergeOrder) |-> res[mergeOrder[k]]]
        IN  /\ apps = SelectedWindows
            /\ Len(mergeOrder) = Len(apps) /\ Range(mergeOrder) = Tasks
            /\ interactive_nodes
                 = Flatten([k \in DOMAIN handed |-> handed[k].interactive_nodes])
            /\ informative_nodes
                 = Flatten([k \in DOMAIN handed |-> handed[k].informative_nodes])
            /\ scrollable_nodes
                 = Flatten([k \in DOMAIN handed |-> handed[k].scrollable_nodes])
            /\ SeqToBag(interactive_nodes)
                 = BagOfLists([t \in Tasks |-> res[t].interactive_nodes])
            /\ SeqToBag(informative_nodes)
                 = BagOfLists([t \in Tasks |-> res[t].informative_nodes])
            /\ SeqToBag(scrollable_nodes)
                 = BagOfLists([t \in Tasks |-> res[t].scrollable_nodes])

\* three walks that all found nodes ran on more than one worker and were
\* handed over in the reverse of the order of submission
C9_Witness ==
    /\ pc = "returned"
    /\ pool > 1
    /\ mergeOrder = << 3, 2, 1 >>
    /\ \A t \in Tasks : future[t].result.interactive_nodes # << >>

----------------------------------------------------------------------------
(* C10.  At most one draw_annotation task at a time is between its first   *)
(* and its last operation on the shared canvas.                            *)

\* the tasks that have made their first call on `draw` and not yet their last
Drawing == { t \in Labels : draw_pc[t] \in { "textlength", "label", "text" } }

\* C10: no two draw_annotation tasks are inside their drawing operations at once
C10_DrawMutualExclusion == Cardinality(Drawing) <= 1

====
